---- MODULE Spec2Model ----
(***************************************************************************)
(* State-machine model of src/app.py: the Practice table ("pratiche"), the *)
(* HTTP Basic gate, the flask-login session and the request handlers       *)
(* login, logout, api_pratiche, pratica_nuova, pratica_modifica and        *)
(* pratica_elimina.  The pages home and pratiche read and write no state   *)
(* and are left out.                                                       *)
(*                                                                         *)
(* Text is a sequence of one-character strings, so that str.strip and      *)
(* str.upper are computed character by character.  A form field or query   *)
(* argument is [has, v]: has = FALSE is Python's None (field not sent).    *)
(***************************************************************************)
EXTENDS Integers, Sequences, FiniteSets, TLC

----------------------------------------------------------------------------
(* Bounds of the exploration *)

\* largest primary key handed out
MaxId == 1
\* last instant of the clock
MaxClock == 2
\* clock instants per calendar day
TicksPerDay == 2
\* rows stored at once where several rows are explored
MaxRows == 2
\* last instant of the clock where several rows, or requests in flight, are
\* explored
LastTick == 1
\* Update requests that have loaded their row and not yet committed
MaxInflight == 1

----------------------------------------------------------------------------
(* Text: str.strip, str.upper, "x or default" *)

Whitespace == {" ", "\t", "\n"}

LowerLetters == <<"a","b","c","d","e","f","g","h","i","j","k","l","m",
                  "n","o","p","q","r","s","t","u","v","w","x","y","z">>
UpperLetters == <<"A","B","C","D","E","F","G","H","I","J","K","L","M",
                  "N","O","P","Q","R","S","T","U","V","W","X","Y","Z">>

\* str.upper on one character
UpperTable ==
    [c \in {LowerLetters[i] : i \in 1..Len(LowerLetters)} |->
        UpperLetters[CHOOSE i \in 1..Len(LowerLetters) : LowerLetters[i] = c]]
UpperChar(c) == IF c \in DOMAIN UpperTable THEN UpperTable[c] ELSE c

\* str.upper
Upper(s) == [i \in 1..Len(s) |-> UpperChar(s[i])]

RECURSIVE LStrip(_)
LStrip(s) == IF s # <<>> /\ Head(s) \in Whitespace THEN LStrip(Tail(s)) ELSE s

RECURSIVE RStrip(_)
RStrip(s) ==
    IF s # <<>> /\ s[Len(s)] \in Whitespace
    THEN RStrip(SubSeq(s, 1, Len(s) - 1))
    ELSE s

\* str.strip
Strip(s) == RStrip(LStrip(s))

\* a value that was not sent (None) and one that was
None == [has |-> FALSE, v |-> <<>>]
Some(s) == [has |-> TRUE, v |-> s]

\* Python's (x or d) on an optional string: None and "" are both falsy
OrElse(x, d) == IF x.has /\ x.v # <<>> THEN x.v ELSE d

\* request.args.get(key, d): the default only when the key is absent
GetDefault(x, d) == IF x.has THEN x.v ELSE d

----------------------------------------------------------------------------
(* The three states, and the absent date *)

NUOVA == <<"N","U","O","V","A">>
ATTIVA == <<"A","T","T","I","V","A">>
CHIUSA == <<"C","H","I","U","S","A">>
Stati == {NUOVA, ATTIVA, CHIUSA}

\* a NULL date column
NoDate == -1

\* date.today() at instant t
DateOf(t) == t \div TicksPerDay

----------------------------------------------------------------------------
(* Credentials *)

\* the outcome None of verify_password, and a request with no session cookie
NoPrincipal == "<None>"
NoCookie == "<anonymous>"

\* generate_password_hash: a salted hash, matched only by the same password
generate_password_hash(password) == [of |-> password]
check_password_hash(pwhash, password) == pwhash.of = password

BASIC_USERS ==
    [u \in {"test", "collab"} |->
        IF u = "test" THEN generate_password_hash("test123")
                      ELSE generate_password_hash("collab123")]

\* the gate with the password never compared
verify_password_NameOnly(username, password) ==
    IF username \in DOMAIN BASIC_USERS THEN username ELSE NoPrincipal

\* the HTTP Basic gate behind auth.login_required
verify_password(username, password) ==
    IF username \in DOMAIN BASIC_USERS
       /\ check_password_hash(BASIC_USERS[username], password)
    THEN username
    ELSE NoPrincipal

ADMIN == <<"a","d","m","i","n">>
COLLAB == <<"c","o","l","l","a","b">>

\* load_users() with the environment's defaults
USERS ==
    [uid \in {"1", "2"} |->
        IF uid = "1" THEN [id |-> "1", username |-> ADMIN, password |-> "admin"]
                     ELSE [id |-> "2", username |-> COLLAB, password |-> "collab"]]

\* load_user: USERS.get(user_id); current_user is anonymous without one
IsAuthenticatedUser(cookie) == cookie \in DOMAIN USERS

----------------------------------------------------------------------------
(* Inputs of the requests *)

\* Authorization headers: none, a known pair, and a known name with another
\* user's password
CredInputs ==
    { [username |-> "", password |-> ""],
      [username |-> "test", password |-> "test123"],
      [username |-> "test", password |-> "collab123"] }

ClienteInputs == { Some(<<" ">>), Some(<<" ","a">>), Some(<<"b">>) }
OggettoInputs == { None, Some(<<"x","\n">>) }
StatoInputs ==
    { None, Some(<<>>), Some(<<"b","o","g","u","s">>),
      Some(<<"n","u","o","v","a">>), Some(ATTIVA),
      Some(<<"C","h","i","u","s","a">>) }
NoteInputs == { Some(<<"n"," ">>) }

\* the forms sent: every status input with a client and a subject that
\* pass validation, and a valid new status with one that does not
BlankInputs == { None, Some(<<" ">>) }
Forms ==
    { form \in [cliente : ClienteInputs, oggetto : OggettoInputs,
                stato : StatoInputs, note : NoteInputs] :
        (form.cliente \in BlankInputs \/ form.oggetto \in BlankInputs)
            => form.stato = Some(<<"C","h","i","u","s","a">>) }

\* the login form; a password is kept whole, with "" for one not sent
LoginInputs ==
    { [username |-> Some(<<" ">> \o ADMIN), password |-> "admin"],
      [username |-> Some(COLLAB), password |-> "collab"],
      [username |-> Some(ADMIN), password |-> "collab"],
      [username |-> None, password |-> ""] }

Pids == 1..MaxId

\* What the requests of one exploration are drawn from: the Authorization
\* headers, the forms of Create and Update, the "stato" arguments of the
\* listing, the login forms, the primary keys, and the last clock instant.
Wide ==
    [creds |-> CredInputs, forms |-> Forms, args |-> StatoInputs,
     logins |-> LoginInputs, ids |-> Pids, ticks |-> MaxClock]

\* fewer headers and forms, two primary keys: tables of several rows
SeveralRows ==
    [creds |-> { c \in CredInputs : c.password # "collab123" },
     forms |-> { form \in Forms :
                   /\ form.cliente = Some(<<"b">>)
                   /\ form.oggetto = Some(<<"x","\n">>)
                   /\ form.stato \in { None, Some(ATTIVA),
                                       Some(<<"C","h","i","u","s","a">>) } },
     args |-> { None, Some(<<"b","o","g","u","s">>),
                Some(<<"n","u","o","v","a">>),
                Some(<<"C","h","i","u","s","a">>) },
     logins |-> { l \in LoginInputs : l.password \in {"admin", ""} },
     ids |-> 1..MaxRows,
     ticks |-> LastTick]

\* fewer headers and forms, one row: Updates that overlap in time
Overlapping ==
    [creds |-> { c \in CredInputs : c.password # "collab123" },
     forms |-> { form \in Forms :
                   /\ form.cliente \in { Some(<<" ","a">>), Some(<<"b">>) }
                   /\ form.oggetto = Some(<<"x","\n">>)
                   /\ form.stato \in { None, Some(ATTIVA),
                                       Some(<<"C","h","i","u","s","a">>) } },
     args |-> { None },
     logins |-> { l \in LoginInputs : l.password \in {"admin", ""} },
     ids |-> Pids,
     ticks |-> LastTick]

----------------------------------------------------------------------------
(* State *)

VARIABLES
    pratiche,   \* the table "pratiche": id -> Practice row
    tables,     \* whether db.create_all() has run
    logged_in,  \* user ids holding a flask-login session
    clock,      \* the current instant
    last,       \* the latest request and its response
    hist,       \* per stored id: what its Create set, its latest successful
                \* mutation, and the closing date its latest reopening cleared
    deleted,    \* the ids a Delete removed and no Create has handed out since
    inflight    \* the Update requests between their SELECT and their commit:
                \* request number -> what the request holds

vars == <<pratiche, tables, logged_in, clock, last, hist, deleted, inflight>>

----------------------------------------------------------------------------
(* What is recorded of a request *)

NoCreds == [username |-> "", password |-> ""]

\* a request of which nothing was read yet but its Authorization header
Request(op, creds) ==
    [op |-> op, outcome |-> "none", creds |-> creds, cookie |-> NoCookie,
     pid |-> 0, cliente |-> None, oggetto |-> None, stato |-> None,
     today |-> NoDate, now |-> NoDate, items |-> <<>>]

Init ==
    /\ pratiche = <<>>
    /\ tables = FALSE
    /\ logged_in = {}
    /\ clock = 0
    /\ last = Request("start", NoCreds)
    /\ hist = <<>>
    /\ deleted = {}
    /\ inflight = <<>>

----------------------------------------------------------------------------
(* The Practice row *)

\* Practice(...) of pratica_nuova, with the column defaults the INSERT fills:
\* data_chiusura is not passed and has no default; created_at defaults to
\* datetime.utcnow at the INSERT
NewPractice(id, f, username, today, now, inserted) ==
    [id |-> id,
     cliente |-> f.cliente,
     oggetto |-> f.oggetto,
     stato |-> f.stato,
     data_apertura |-> today,
     data_chiusura |-> NoDate,
     note |-> f.note,
     updated_at |-> now,
     updated_by |-> username,
     created_at |-> inserted,
     created_by |-> username]

\* primary keys handed out with no regard to the stored ones
NextIds_Any(ids) == ids

\* the primary keys the INSERT may assign: an integer above every stored key
\* (sqlite's INTEGER PRIMARY KEY takes the largest rowid plus one, postgresql's
\* SERIAL the next value of a sequence that only grows)
NextIds(ids) == {id \in ids : \A j \in DOMAIN pratiche : j < id}

\* the form read without .upper()
NuovaParse_CaseSensitive(form) ==
    LET stato == OrElse(form.stato, NUOVA) IN
    [cliente |-> Strip(OrElse(form.cliente, <<>>)),
     oggetto |-> Strip(OrElse(form.oggetto, <<>>)),
     stato |-> IF stato \notin Stati THEN NUOVA ELSE stato,
     note |-> Strip(OrElse(form.note, <<>>))]

\* the fields of pratica_nuova's form, as lines 198-204 read them
NuovaParse(form) ==
    LET stato == Upper(OrElse(form.stato, NUOVA)) IN
    [cliente |-> Strip(OrElse(form.cliente, <<>>)),
     oggetto |-> Strip(OrElse(form.oggetto, <<>>)),
     stato |-> IF stato \notin Stati THEN NUOVA ELSE stato,
     note |-> Strip(OrElse(form.note, <<>>))]

\* the fields of pratica_modifica's form, as lines 235-241 read them
ModificaParse(p, form) ==
    LET stato == Upper(OrElse(form.stato, p.stato)) IN
    [cliente |-> Strip(OrElse(form.cliente, <<>>)),
     oggetto |-> Strip(OrElse(form.oggetto, <<>>)),
     stato |-> IF stato \notin Stati THEN p.stato ELSE stato,
     note |-> Strip(OrElse(form.note, <<>>))]

\* the check with the subject forgotten
MissingRequired_ClienteOnly(f) == f.cliente = <<>>

\* "if not cliente or not oggetto"
MissingRequired(f) == f.cliente = <<>> \/ f.oggetto = <<>>

\* the closing date stamped on every save as CHIUSA
ChiusuraAfter_Restamp(p, stato, today) ==
    IF stato = CHIUSA THEN today ELSE NoDate

\* the closing date never cleared
ChiusuraAfter_NoClear(p, stato, today) ==
    IF stato = CHIUSA /\ p.data_chiusura = NoDate THEN today ELSE p.data_chiusura

\* the closing date after lines 253-256
ChiusuraAfter(p, stato, today) ==
    LET stamped == IF stato = CHIUSA /\ p.data_chiusura = NoDate
                   THEN today ELSE p.data_chiusura
    IN  IF stato # CHIUSA THEN NoDate ELSE stamped

\* the save that also rewrites who created the row, and when
ModificaApply_Recreates(p, f, username, today, now) ==
    [p EXCEPT !.cliente = f.cliente,
              !.oggetto = f.oggetto,
              !.stato = f.stato,
              !.note = f.note,
              !.data_chiusura = ChiusuraAfter(p, f.stato, today),
              !.updated_at = now,
              !.updated_by = username,
              !.created_at = now,
              !.created_by = username]

\* the save that leaves updated_by as it was
ModificaApply_KeepsUpdatedBy(p, f, username, today, now) ==
    [p EXCEPT !.cliente = f.cliente,
              !.oggetto = f.oggetto,
              !.stato = f.stato,
              !.note = f.note,
              !.data_chiusura = ChiusuraAfter(p, f.stato, today),
              !.updated_at = now]

\* the row after lines 247-259
ModificaApply(p, f, username, today, now) ==
    [p EXCEPT !.cliente = f.cliente,
              !.oggetto = f.oggetto,
              !.stato = f.stato,
              !.note = f.note,
              !.data_chiusura = ChiusuraAfter(p, f.stato, today),
              !.updated_at = now,
              !.updated_by = username]

----------------------------------------------------------------------------
(* Request handlers *)

\* auth.login_required: the handler runs only with a principal from
\* verify_password
GateOpen(creds) == verify_password(creds.username, creds.password) # NoPrincipal

\* the 401 of auth.login_required
Unauthorized(op, creds) ==
    /\ ~GateOpen(creds)
    /\ last' = [Request(op, creds) EXCEPT !.outcome = "401"]
    /\ UNCHANGED <<pratiche, tables, logged_in, clock, hist, deleted, inflight>>

\* what the request's session cookie may be
Cookies == logged_in \cup {NoCookie}

\* POST /pratiche/nuova and GET /pratiche/nuova
pratica_nuova(scope) ==
    \E creds \in scope.creds :
      LET req == Request("nuova", creds) IN
      \/ Unauthorized("nuova", creds)
      \/ /\ GateOpen(creds)
         /\ tables' = TRUE
         /\ UNCHANGED <<logged_in, inflight>>
         /\ \/ /\ last' = [req EXCEPT !.outcome = "form"]
               /\ UNCHANGED <<pratiche, clock, hist, deleted>>
            \/ \E form \in scope.forms :
                 LET f == NuovaParse(form)
                     got == [req EXCEPT !.cliente = form.cliente,
                                        !.oggetto = form.oggetto,
                                        !.stato = form.stato]
                 IN
                 \/ /\ MissingRequired(f)
                    /\ last' = [got EXCEPT !.outcome = "invalid"]
                    /\ UNCHANGED <<pratiche, clock, hist, deleted>>
                 \/ /\ ~MissingRequired(f)
                    /\ \E cookie \in Cookies :
                         \/ /\ ~IsAuthenticatedUser(cookie)
                            /\ last' = [req EXCEPT !.outcome = "500"]
                            /\ UNCHANGED <<pratiche, clock, hist, deleted>>
                         \/ /\ IsAuthenticatedUser(cookie)
                            /\ \E id \in NextIds(scope.ids),
                                  inserted \in clock..(clock + 1) :
                                 LET p == NewPractice(id, f,
                                              USERS[cookie].username,
                                              DateOf(clock), clock, inserted)
                                 IN
                                 /\ inserted <= scope.ticks
                                 /\ pratiche' = (p.id :> p) @@ pratiche
                                 /\ deleted' = deleted \ {p.id}
                                 /\ clock' = inserted
                                 /\ hist' = (p.id :>
                                       [born |-> [id |-> p.id,
                                                  data_apertura |-> p.data_apertura,
                                                  created_at |-> p.created_at,
                                                  created_by |-> p.created_by],
                                        at |-> clock,
                                        by |-> USERS[cookie].username,
                                        cleared |-> NoDate]) @@ hist
                                 /\ last' = [got EXCEPT !.outcome = "redirect",
                                                        !.cookie = cookie,
                                                        !.pid = p.id,
                                                        !.today = DateOf(clock),
                                                        !.now = clock]

\* POST and GET /pratiche/<pid>/modifica
pratica_modifica(scope) ==
    \E creds \in scope.creds :
      LET req == Request("modifica", creds) IN
      \/ Unauthorized("modifica", creds)
      \/ /\ GateOpen(creds)
         /\ tables' = TRUE
         /\ UNCHANGED <<logged_in, clock, deleted, inflight>>
         /\ \E pid \in scope.ids :
              \/ /\ pid \notin DOMAIN pratiche
                 /\ last' = [req EXCEPT !.outcome = "404", !.pid = pid]
                 /\ UNCHANGED <<pratiche, hist>>
              \/ /\ pid \in DOMAIN pratiche
                 /\ last' = [req EXCEPT !.outcome = "form", !.pid = pid]
                 /\ UNCHANGED <<pratiche, hist>>
              \/ /\ pid \in DOMAIN pratiche
                 /\ \E form \in scope.forms :
                      LET p == pratiche[pid]
                          f == ModificaParse(p, form)
                          got == [req EXCEPT !.pid = pid,
                                             !.cliente = form.cliente,
                                             !.oggetto = form.oggetto,
                                             !.stato = form.stato]
                      IN
                      \/ /\ MissingRequired(f)
                         /\ last' = [got EXCEPT !.outcome = "invalid"]
                         /\ UNCHANGED <<pratiche, hist>>
                      \/ /\ ~MissingRequired(f)
                         /\ \E cookie \in Cookies :
                              \/ /\ ~IsAuthenticatedUser(cookie)
                                 /\ last' = [req EXCEPT !.outcome = "500",
                                                        !.pid = pid]
                                 /\ UNCHANGED <<pratiche, hist>>
                              \/ /\ IsAuthenticatedUser(cookie)
                                 /\ LET q == ModificaApply(p, f,
                                                 USERS[cookie].username,
                                                 DateOf(clock), clock)
                                    IN
                                    /\ pratiche' = [pratiche EXCEPT ![pid] = q]
                                    /\ hist' = [hist EXCEPT
                                          ![pid].at = clock,
                                          ![pid].by = USERS[cookie].username,
                                          ![pid].cleared =
                                              IF p.data_chiusura # NoDate
                                                 /\ q.data_chiusura = NoDate
                                              THEN p.data_chiusura ELSE @]
                                 /\ last' = [got EXCEPT !.outcome = "redirect",
                                                        !.cookie = cookie,
                                                        !.today = DateOf(clock),
                                                        !.now = clock]

\* the delete that is never committed
delete_Keeps(rows, pid) == rows

\* the DELETE that takes every row with it
delete_EveryRow(rows, pid) == <<>>

\* db.session.delete(p) and the commit: the table without the row pid
delete(rows, pid) == [i \in DOMAIN rows \ {pid} |-> rows[i]]

\* POST /pratiche/<pid>/elimina
pratica_elimina(scope) ==
    \E creds \in scope.creds :
      LET req == Request("elimina", creds) IN
      \/ Unauthorized("elimina", creds)
      \/ /\ GateOpen(creds)
         /\ tables' = TRUE
         /\ UNCHANGED <<logged_in, clock, inflight>>
         /\ \E pid \in scope.ids :
              \/ /\ pid \notin DOMAIN pratiche
                 /\ last' = [req EXCEPT !.outcome = "404", !.pid = pid]
                 /\ UNCHANGED <<pratiche, hist, deleted>>
              \/ /\ pid \in DOMAIN pratiche
                 /\ pratiche' = delete(pratiche, pid)
                 /\ hist' = [i \in DOMAIN hist \ {pid} |-> hist[i]]
                 /\ deleted' = deleted \cup {pid}
                 /\ last' = [req EXCEPT !.outcome = "redirect", !.pid = pid]

\* Practice.to_dict; isoformat() of a date or datetime is kept as [iso |-> t]
IsoOrNone(t) == IF t # NoDate THEN [iso |-> t] ELSE [iso |-> NoDate]
to_dict(p) ==
    [id |-> p.id,
     cliente |-> p.cliente,
     oggetto |-> p.oggetto,
     stato |-> p.stato,
     data_apertura |-> IsoOrNone(p.data_apertura),
     data_chiusura |-> IsoOrNone(p.data_chiusura),
     note |-> p.note,
     updated_at |-> IsoOrNone(p.updated_at),
     updated_by |-> p.updated_by]

\* the "stato" query argument of the two listings, lines 183-185
ListaStato(arg) ==
    LET stato == Upper(GetDefault(arg, ATTIVA)) IN
    IF stato \notin Stati THEN ATTIVA ELSE stato

\* the query without its order_by: the matching rows in any order
Query_Unordered(stato) ==
    LET ids == {i \in DOMAIN pratiche : pratiche[i].stato = stato}
        n == Cardinality(ids)
    IN  { q \in [1..n -> ids] : \A i, j \in 1..n : i # j => q[i] # q[j] }

\* filter_by(stato=stato).order_by(updated_at.desc()).all(): every order of
\* the matching rows in which updated_at never increases
Query(stato) ==
    LET ids == {i \in DOMAIN pratiche : pratiche[i].stato = stato}
        n == Cardinality(ids)
    IN  { q \in [1..n -> ids] :
            /\ \A i, j \in 1..n : i # j => q[i] # q[j]
            /\ \A i, j \in 1..n :
                 i < j => pratiche[q[i]].updated_at >= pratiche[q[j]].updated_at }

\* GET /api/pratiche
api_pratiche(scope) ==
    \E creds \in scope.creds :
      LET req == Request("lista", creds) IN
      \/ Unauthorized("lista", creds)
      \/ /\ GateOpen(creds)
         /\ tables' = TRUE
         /\ UNCHANGED <<pratiche, logged_in, clock, hist, deleted, inflight>>
         /\ \E arg \in scope.args :
              \E q \in Query(ListaStato(arg)) :
                last' = [req EXCEPT
                           !.outcome = "json",
                           !.stato = arg,
                           !.items = [i \in 1..Len(q) |-> to_dict(pratiche[q[i]])]]

\* the user the login form names, lines 152-156
FindUser(username, password) ==
    {uid \in DOMAIN USERS :
        USERS[uid].username = username /\ USERS[uid].password = password}

\* GET and POST /login
login(scope) ==
    \E creds \in scope.creds :
      LET req == Request("login", creds) IN
      \/ Unauthorized("login", creds)
      \/ /\ GateOpen(creds)
         /\ UNCHANGED <<pratiche, tables, clock, hist, deleted, inflight>>
         /\ \/ /\ last' = [req EXCEPT !.outcome = "form"]
               /\ UNCHANGED logged_in
            \/ \E form \in scope.logins :
                 LET username == Strip(OrElse(form.username, <<>>))
                     found == FindUser(username, form.password)
                 IN
                 \/ /\ found = {}
                    /\ last' = [req EXCEPT !.outcome = "denied"]
                    /\ UNCHANGED logged_in
                 \/ \E uid \in found :
                      /\ logged_in' = logged_in \cup {uid}
                      /\ last' = [req EXCEPT !.outcome = "redirect",
                                             !.cookie = uid]

\* GET /logout
logout(scope) ==
    \E creds \in scope.creds :
      LET req == Request("logout", creds) IN
      \/ Unauthorized("logout", creds)
      \/ /\ GateOpen(creds)
         /\ UNCHANGED <<pratiche, tables, clock, hist, deleted, inflight>>
         /\ \E cookie \in Cookies :
              /\ logged_in' = logged_in \ {cookie}
              /\ last' = [req EXCEPT !.outcome = "redirect", !.cookie = cookie]

\* time passes
Tick(scope) ==
    /\ clock < scope.ticks
    /\ clock' = clock + 1
    /\ UNCHANGED <<pratiche, tables, logged_in, last, hist, deleted, inflight>>

Next ==
    \/ login(Wide)
    \/ logout(Wide)
    \/ api_pratiche(Wide)
    \/ pratica_nuova(Wide)
    \/ pratica_modifica(Wide)
    \/ pratica_elimina(Wide)
    \/ Tick(Wide)

Spec == Init /\ [][Next]_vars

----------------------------------------------------------------------------
(* Tables of several rows *)

NextSeveralRows ==
    \/ login(SeveralRows)
    \/ logout(SeveralRows)
    \/ api_pratiche(SeveralRows)
    \/ pratica_nuova(SeveralRows)
    \/ pratica_modifica(SeveralRows)
    \/ pratica_elimina(SeveralRows)
    \/ Tick(SeveralRows)

SpecSeveralRows == Init /\ [][NextSeveralRows]_vars

----------------------------------------------------------------------------
(* Updates that overlap in time.  Every request runs in a thread and a
   database session of its own.  pratica_modifica reads its row at line 232
   and writes it at line 261; between the two, other requests may commit.
   modifica_load is an Update as far as line 232 and modifica_commit is the
   rest of it.  A request that is refused at the gate, or finds no row, writes
   nothing and is pratica_modifica's. *)

\* the UPDATE the commit flushes: the unit of work sets the columns whose
\* value in the session (q) differs from the value the session loaded (p), and
\* no others; row is what the table holds by then
Flush(row, p, q) ==
    [row EXCEPT
        !.cliente = IF q.cliente # p.cliente THEN q.cliente ELSE @,
        !.oggetto = IF q.oggetto # p.oggetto THEN q.oggetto ELSE @,
        !.stato = IF q.stato # p.stato THEN q.stato ELSE @,
        !.note = IF q.note # p.note THEN q.note ELSE @,
        !.data_chiusura =
            IF q.data_chiusura # p.data_chiusura THEN q.data_chiusura ELSE @,
        !.updated_at = IF q.updated_at # p.updated_at THEN q.updated_at ELSE @,
        !.updated_by = IF q.updated_by # p.updated_by THEN q.updated_by ELSE @]

\* lines 229-232 of an Update that finds its row
modifica_load(scope) ==
    \E creds \in scope.creds, pid \in scope.ids :
      /\ GateOpen(creds)
      /\ pid \in DOMAIN pratiche
      /\ tables' = TRUE
      /\ \E r \in (1..MaxInflight) \ DOMAIN inflight :
           inflight' = (r :> [creds |-> creds, pid |-> pid, p |-> pratiche[pid]])
                           @@ inflight
      /\ UNCHANGED <<pratiche, logged_in, clock, last, hist, deleted>>

\* lines 234-265 of the Update modifica_load began
modifica_commit(scope) ==
    \E r \in DOMAIN inflight :
      LET pid == inflight[r].pid
          p == inflight[r].p
          req == [Request("modifica", inflight[r].creds) EXCEPT !.pid = pid]
      IN
      /\ inflight' = [i \in DOMAIN inflight \ {r} |-> inflight[i]]
      /\ UNCHANGED <<tables, logged_in, clock, deleted>>
      /\ \/ /\ last' = [req EXCEPT !.outcome = "form"]
            /\ UNCHANGED <<pratiche, hist>>
         \/ \E form \in scope.forms :
              LET f == ModificaParse(p, form)
                  got == [req EXCEPT !.cliente = form.cliente,
                                     !.oggetto = form.oggetto,
                                     !.stato = form.stato]
              IN
              \/ /\ MissingRequired(f)
                 /\ last' = [got EXCEPT !.outcome = "invalid"]
                 /\ UNCHANGED <<pratiche, hist>>
              \/ /\ ~MissingRequired(f)
                 /\ \E cookie \in Cookies :
                      \/ /\ \/ ~IsAuthenticatedUser(cookie)
                            \/ pid \notin DOMAIN pratiche
                         /\ last' = [req EXCEPT !.outcome = "500"]
                         /\ UNCHANGED <<pratiche, hist>>
                      \/ /\ IsAuthenticatedUser(cookie)
                         /\ pid \in DOMAIN pratiche
                         /\ LET q == ModificaApply(p, f, USERS[cookie].username,
                                                   DateOf(clock), clock)
                                row == Flush(pratiche[pid], p, q)
                            IN
                            /\ pratiche' = [pratiche EXCEPT ![pid] = row]
                            /\ hist' = [hist EXCEPT
                                  ![pid].at = row.updated_at,
                                  ![pid].by = row.updated_by,
                                  ![pid].cleared =
                                      IF pratiche[pid].data_chiusura # NoDate
                                         /\ row.data_chiusura = NoDate
                                      THEN pratiche[pid].data_chiusura ELSE @]
                         /\ last' = [got EXCEPT !.outcome = "redirect",
                                                !.cookie = cookie,
                                                !.today = DateOf(clock),
                                                !.now = clock]

NextOverlapping ==
    \/ login(Overlapping)
    \/ pratica_nuova(Overlapping)
    \/ pratica_modifica(Overlapping)
    \/ modifica_load(Overlapping)
    \/ modifica_commit(Overlapping)
    \/ Tick(Overlapping)

SpecOverlapping == Init /\ [][NextOverlapping]_vars

----------------------------------------------------------------------------
(* Vocabulary of the properties *)

\* the latest request was `op` and was answered `outcome`
Answered(op, outcome) == last.op = op /\ last.outcome = outcome

\* a field that was not sent, or holds nothing but white space
IsBlank(x) ==
    ~x.has \/ \A k \in 1..Len(x.v) : x.v[k] = " " \/ x.v[k] = "\t" \/ x.v[k] = "\n"

\* x spells the state s in some mix of upper and lower case
SpellsState(x, s) ==
    /\ x.has
    /\ Len(x.v) = Len(s)
    /\ \A k \in 1..Len(s) :
         \/ x.v[k] = s[k]
         \/ \E j \in 1..Len(UpperLetters) :
              UpperLetters[j] = s[k] /\ LowerLetters[j] = x.v[k]

\* x spells none of the three states
SpellsNoState(x) == \A s \in Stati : ~SpellsState(x, s)

\* the name and password pairs HTTP Basic accepts
KnownPairs ==
    { [username |-> "test", password |-> "test123"],
      [username |-> "collab", password |-> "collab123"] }

\* the user name of an Authorization header, letter by letter
Spelled(username) ==
    IF username = "test" THEN <<"t","e","s","t">>
    ELSE IF username = "collab" THEN COLLAB
    ELSE <<>>

\* this step is a request whose operation is one of ops, and not the passing
\* of time after one
Requested(ops) == last'.op \in ops /\ (clock' = clock \/ last' # last)

----------------------------------------------------------------------------
(* C1: every stored Practice has data_chiusura present if and only if its
   stato is CHIUSA, whatever sequence of requests produced it. *)
C1_ClosedOnIffClosed ==
    \A i \in DOMAIN pratiche :
        (pratiche[i].data_chiusura # NoDate) <=> (pratiche[i].stato = CHIUSA)

(* C2: a successful Create leaves a row whose data_apertura is the day of the
   request and whose data_chiusura is that day when the stato is CHIUSA and
   absent when it is NUOVA or ATTIVA. *)
C2_CreateStampsDates ==
    Answered("nuova", "redirect") =>
        LET p == pratiche[last.pid] IN
        /\ p.data_apertura = last.today
        /\ p.stato = CHIUSA => p.data_chiusura = last.today
        /\ p.stato \in {NUOVA, ATTIVA} => p.data_chiusura = NoDate

(* C3: a Create or Update whose client or subject is missing or blank is
   answered with the validation error and changes nothing that is stored,
   whatever status it carries. *)
C3_BlankIsRejected ==
    [][ ( /\ last'.op \in {"nuova", "modifica"}
          /\ last'.outcome \in {"invalid", "redirect"}
          /\ IsBlank(last'.cliente) \/ IsBlank(last'.oggetto) )
        => ( /\ last'.outcome = "invalid"
             /\ pratiche' = pratiche ) ]_vars

\* an Update with a blank client and the new status Chiusa was refused, and the
\* row is still not CHIUSA
C3_Witness ==
    /\ Answered("modifica", "invalid")
    /\ IsBlank(last.cliente)
    /\ SpellsState(last.stato, CHIUSA)
    /\ last.pid \in DOMAIN pratiche
    /\ pratiche[last.pid].stato # CHIUSA

(* C4: a successful Update that saves a row as CHIUSA when it already was
   CHIUSA with a closing date leaves that closing date as it was. *)
C4_CloseIsIdempotent ==
    [][ \A i \in DOMAIN pratiche :
          ( /\ last'.op = "modifica" /\ last'.outcome = "redirect"
            /\ last'.pid = i
            /\ i \in DOMAIN pratiche'
            /\ pratiche[i].stato = CHIUSA
            /\ pratiche[i].data_chiusura # NoDate
            /\ pratiche'[i].stato = CHIUSA )
          => pratiche'[i].data_chiusura = pratiche[i].data_chiusura ]_vars

\* a row saved as CHIUSA by an Update on a day after its closing date
C4_Witness ==
    /\ Answered("modifica", "redirect")
    /\ pratiche[last.pid].stato = CHIUSA
    /\ pratiche[last.pid].data_chiusura # NoDate
    /\ pratiche[last.pid].data_chiusura < last.today

(* C5: an Update that takes a CHIUSA row to NUOVA or ATTIVA leaves it without
   a closing date, and the Update that closes it again stamps the day of that
   second closing. *)
C5_ReopenThenClose ==
    [][ \A i \in DOMAIN pratiche :
          ( /\ last'.op = "modifica" /\ last'.outcome = "redirect"
            /\ last'.pid = i
            /\ i \in DOMAIN pratiche' )
          => /\ ( pratiche[i].stato = CHIUSA /\ pratiche'[i].stato # CHIUSA )
                  => pratiche'[i].data_chiusura = NoDate
             /\ ( /\ hist[i].cleared # NoDate
                  /\ pratiche[i].stato # CHIUSA
                  /\ pratiche'[i].stato = CHIUSA )
                  => pratiche'[i].data_chiusura = last'.today ]_vars

\* a row closed on one day, reopened, and closed again on another day
C5_Witness ==
    /\ Answered("modifica", "redirect")
    /\ hist[last.pid].cleared # NoDate
    /\ pratiche[last.pid].stato = CHIUSA
    /\ pratiche[last.pid].data_chiusura = last.today
    /\ pratiche[last.pid].data_chiusura # hist[last.pid].cleared

(* C6: a successful Create stores the stato NUOVA when the status input is
   missing, empty or spells none of the three states, stores the state the
   input spells (in any letter case) otherwise, and in both cases stores the
   day of the request as data_apertura. *)
C6_CreateStatus ==
    Answered("nuova", "redirect") =>
        LET p == pratiche[last.pid] IN
        /\ p.data_apertura = last.today
        /\ SpellsNoState(last.stato) => p.stato = NUOVA
        /\ \A s \in Stati : SpellsState(last.stato, s) => p.stato = s

\* a Create with the status "bogus" stored NUOVA
C6_Witness ==
    /\ Answered("nuova", "redirect")
    /\ last.stato = Some(<<"b","o","g","u","s">>)
    /\ pratiche[last.pid].stato = NUOVA
    /\ pratiche[last.pid].data_apertura = last.today

(* C7: a successful Update whose status input is missing or spells none of
   the three states keeps the row's stato, which stays one of the three, and
   keeps the closing date of a CHIUSA row. *)
C7_InvalidStatusKeepsRow ==
    [][ \A i \in DOMAIN pratiche :
          ( /\ last'.op = "modifica" /\ last'.outcome = "redirect"
            /\ last'.pid = i
            /\ i \in DOMAIN pratiche'
            /\ SpellsNoState(last'.stato) )
          => /\ pratiche'[i].stato = pratiche[i].stato
             /\ pratiche'[i].stato \in Stati
             /\ pratiche[i].stato = CHIUSA
                  => pratiche'[i].data_chiusura = pratiche[i].data_chiusura ]_vars

(* C8: a stored row's id, data_apertura, created_at and created_by are the
   ones its Create set, after any requests. *)
C8_CreateFieldsFrozen ==
    \A i \in DOMAIN pratiche :
        /\ pratiche[i].id = i
        /\ hist[i].born = [id |-> pratiche[i].id,
                           data_apertura |-> pratiche[i].data_apertura,
                           created_at |-> pratiche[i].created_at,
                           created_by |-> pratiche[i].created_by]

\* an Update by another user, at a later instant, has been saved
C8_Witness ==
    /\ Answered("modifica", "redirect")
    /\ pratiche[last.pid].updated_by # pratiche[last.pid].created_by
    /\ pratiche[last.pid].updated_at > pratiche[last.pid].created_at
    /\ pratiche[last.pid].stato = CHIUSA

(* C9: a stored row's updated_at and updated_by are the instant and the user
   of the latest successful Create or Update of that row; refused and failed
   requests leave them alone. *)
C9_UpdatedReflectsLatest ==
    \A i \in DOMAIN pratiche :
        /\ pratiche[i].updated_at = hist[i].at
        /\ pratiche[i].updated_by = hist[i].by

\* after an Update by another user than the creator, a refused Update
C9_Witness ==
    /\ Answered("modifica", "invalid")
    /\ last.pid \in DOMAIN pratiche
    /\ pratiche[last.pid].updated_by # pratiche[last.pid].created_by
    /\ pratiche[last.pid].updated_at < clock

(* C10: a Create, Update, Delete or List request whose credentials are not a
   known pair is answered 401 before anything of it is read, and changes
   neither the table nor the schema; the table changes only under a known
   pair. *)
C10_GateBeforeLifecycle ==
    [][ /\ ( /\ last'.op \in {"nuova", "modifica", "elimina", "lista"}
             /\ last'.creds \notin KnownPairs )
           => /\ last'.outcome = "401"
              /\ last'.pid = 0
              /\ pratiche' = pratiche
              /\ tables' = tables
        /\ pratiche' # pratiche => last'.creds \in KnownPairs ]_vars

\* a Delete of a stored row under a known name with a wrong password
C10_Witness ==
    /\ Answered("elimina", "401")
    /\ last.creds.username = "test"
    /\ DOMAIN pratiche # {}

(* C11: a Create or Update that passed the gate is never answered by a server
   error for want of a user, and the created_by and updated_by it writes are
   the user name the gate checked. *)
C11_RecordedIsChecked ==
    ( /\ last.op \in {"nuova", "modifica"}
      /\ last.creds \in KnownPairs )
    => /\ last.outcome # "500"
       /\ last.outcome = "redirect" =>
            pratiche[last.pid].updated_by = Spelled(last.creds.username)
       /\ Answered("nuova", "redirect") =>
            pratiche[last.pid].created_by = Spelled(last.creds.username)

(* C12: a listing that passed the gate returns the stored rows whose stato is
   the one asked for, each once and no other, with updated_at never increasing
   down the list; an argument that is absent or spells none of the three
   states asks for ATTIVA; and the table is left as it was. *)
C12_ListByStatus ==
    [][ ( Requested({"lista"}) /\ last'.outcome # "401" )
        => LET items == last'.items
               asked == IF SpellsNoState(last'.stato) THEN ATTIVA
                        ELSE CHOOSE s \in Stati : SpellsState(last'.stato, s)
               match == {i \in DOMAIN pratiche : pratiche[i].stato = asked}
           IN  /\ last'.outcome = "json"
               /\ pratiche' = pratiche
               /\ {items[k].id : k \in DOMAIN items} = match
               /\ Len(items) = Cardinality(match)
               /\ \A k \in DOMAIN items :
                    /\ items[k].stato = asked
                    /\ items[k].cliente = pratiche[items[k].id].cliente
                    /\ items[k].updated_at.iso = pratiche[items[k].id].updated_at
               /\ \A j, k \in DOMAIN items :
                    j < k => items[j].updated_at.iso >= items[k].updated_at.iso
      ]_vars

\* a listing with no argument returned two ATTIVA rows, the one saved later
\* first, and that one is the row created first
C12_Witness ==
    /\ Answered("lista", "json")
    /\ last.stato = None
    /\ Len(last.items) = 2
    /\ last.items[1].stato = ATTIVA
    /\ last.items[1].updated_at.iso > last.items[2].updated_at.iso
    /\ last.items[1].id < last.items[2].id

(* C13: an Update or Delete that passed the gate and names an id that is not
   stored, or that a Delete has removed, is answered 404 and leaves the table
   as it was. *)
C13_NotFound ==
    [][ ( /\ Requested({"modifica", "elimina"})
          /\ last'.outcome # "401"
          /\ last'.pid \notin DOMAIN pratiche \/ last'.pid \in deleted )
        => ( /\ last'.outcome = "404"
             /\ pratiche' = pratiche ) ]_vars

\* an Update of an id that a Delete removed was answered 404 and stored nothing
C13_Witness ==
    /\ Answered("modifica", "404")
    /\ last.pid \in deleted
    /\ last.pid \notin DOMAIN pratiche

(* C14: a Delete that passed the gate and names a stored id is answered by
   the redirect whatever the row's stato; after it the row is neither stored
   nor in the listing of any stato, and every other row is as it was. *)
C14_DeleteUnconditional ==
    [][ ( /\ Requested({"elimina"})
          /\ last'.outcome # "401"
          /\ last'.pid \in DOMAIN pratiche )
        => /\ last'.outcome = "redirect"
           /\ DOMAIN pratiche' = DOMAIN pratiche \ {last'.pid}
           /\ \A i \in DOMAIN pratiche' : pratiche'[i] = pratiche[i]
           /\ \A s \in Stati : \A q \in Query(s)' :
                \A k \in DOMAIN q : q[k] # last'.pid ]_vars

\* a Delete removed one row of two, and the other, a CHIUSA row, is stored
C14_Witness ==
    /\ Answered("elimina", "redirect")
    /\ last.pid \in deleted
    /\ last.pid \notin DOMAIN pratiche
    /\ \E i \in DOMAIN pratiche : pratiche[i].stato = CHIUSA

(* C15: when an Update commits a row that another Update has committed since
   the first one read it, the stored row has the cliente, oggetto, stato,
   note, data_chiusura and updated_by the committing request computed, and
   has a data_chiusura if and only if its stato is CHIUSA. *)
C15_LastWriterWins ==
    [][ \A r \in DOMAIN inflight :
          ( /\ r \notin DOMAIN inflight'
            /\ last'.outcome = "redirect"
            /\ pratiche[inflight[r].pid] # inflight[r].p )
          => LET p == inflight[r].p
                 row == pratiche'[inflight[r].pid]
             IN  /\ \E form \in Forms :
                      /\ form.cliente = last'.cliente
                      /\ form.oggetto = last'.oggetto
                      /\ form.stato = last'.stato
                      /\ LET q == ModificaApply(p, ModificaParse(p, form),
                                      USERS[last'.cookie].username,
                                      last'.today, last'.now)
                         IN  /\ row.cliente = q.cliente
                             /\ row.oggetto = q.oggetto
                             /\ row.stato = q.stato
                             /\ row.note = q.note
                             /\ row.data_chiusura = q.data_chiusura
                             /\ row.updated_by = q.updated_by
                 /\ (row.data_chiusura # NoDate) <=> (row.stato = CHIUSA)
      ]_vars

(* C16: right after a successful Create the new row's created_at and
   updated_at are both the instant of the request, and its created_by is its
   updated_by. *)
C16_CreatedEqualsUpdated ==
    Answered("nuova", "redirect") =>
        LET p == pratiche[last.pid] IN
        /\ p.updated_at = last.now
        /\ p.created_at = p.updated_at
        /\ p.created_by = p.updated_by

(* C17: a successful Create stores one more row, under an id that no stored
   row had, and neither it nor a successful Update changes any other row. *)
C17_CreateAddsOne ==
    [][ /\ ( Requested({"nuova"}) /\ last'.outcome = "redirect" )
           => /\ last'.pid \notin DOMAIN pratiche
              /\ DOMAIN pratiche' = DOMAIN pratiche \cup {last'.pid}
              /\ pratiche'[last'.pid].id = last'.pid
              /\ \A i \in DOMAIN pratiche : pratiche'[i] = pratiche[i]
        /\ ( Requested({"modifica"}) /\ last'.outcome = "redirect" )
           => /\ DOMAIN pratiche' = DOMAIN pratiche
              /\ \A i \in DOMAIN pratiche \ {last'.pid} :
                   pratiche'[i] = pratiche[i] ]_vars

\* a Create stored a second row beside one that an Update had closed
C17_Witness ==
    /\ Answered("nuova", "redirect")
    /\ Cardinality(DOMAIN pratiche) = 2
    /\ \E i \in DOMAIN pratiche \ {last.pid} :
         /\ pratiche[i].stato = CHIUSA
         /\ pratiche[i].data_chiusura # NoDate

====
